---- MODULE Spec2Model ----
(***************************************************************************)
(* Model of the TrustyAI drift-test helpers of opendatahub-tests           *)
(* (tests/trustyai/drift/utils.py): inference submission under the         *)
(* tenacity retry decorator, the observation counter parser, the           *)
(* TimeoutSampler polling helpers, the batch workflow and the metric       *)
(* verification helpers.  One helper call is in progress at a time (`op`); *)
(* the monitored service registers observations concurrently.              *)
(***************************************************************************)
EXTENDS Integers, Sequences, FiniteSets, TLC

VARIABLES
    op,               \* the helper the test called: "none" until the call
    \* ---- the TrustyAI service (environment) ----
    observations,     \* observations the service has registered
    pending,          \* observations received by the model, not yet registered
    \* ---- send_inference_request ----
    max_retries,      \* argument max_retries
    batch,            \* shape[0] of the data batch being sent
    infPc,            \* "off" | "attempt" | "sleep" | "done"
    attempt_number,   \* tenacity retry_state.attempt_number
    posts,            \* requests.post calls made by this call
    outcomes,         \* what each POST met, in order
    infResult,        \* "none" | "ok" | the exception that reaches the caller
    exhaustedLogged,  \* the "All N retry attempts failed" branch ran
    sleepFor,         \* retry_state.next_action.sleep of the last backoff
    \* ---- get_trustyai_number_of_observations ----
    model_metadata,   \* the response of GET /info given to the last direct call
    obsResult,        \* what that call returned or raised
    \* ---- wait_for_trustyai_to_register_inference_request ----
    waitPc,           \* "off" | "read" | "poll" | "done"
    current_observations,   \* the count read on entry
    expected_observations,  \* argument expected_observations
    polls,            \* samples TimeoutSampler has yielded
    waitResult,       \* what the wait returned or raised
    reachedAtPoll,    \* history: the service's count was the expected one at a sample
    \* ---- send_inference_requests_and_verify_trustyai_service ----
    files,            \* shape[0] of each batch file under data_path, in walk order
    fileIdx,          \* the file being processed
    flowPc,           \* "off" | "read" | "send" | "wait" | "done"
    flowCurrent,      \* current_observations read before the batch is sent
    firstCount,       \* history: the count read before the first submission
    flowResult,       \* what the helper returned or raised
    \* ---- wait_for_modelmesh_pods_registered_by_trustyai ----
    pods,             \* the pods of the namespace (environment)
    podPc,            \* "off" | "list" | "env" | "status" | "done"
    modelmesh_pods,   \* the pods listed by the running sample, in order
    podIdx,           \* the pod the sample's loop is at
    found_pod_with_env,
    running_with_env, \* history: pods of this sample seen with the variable and Running
    podPolls,         \* samples TimeoutSampler has yielded
    podResult,        \* what the helper returned or raised
    \* ---- verify_trustyai_metric_request / verify_trustyai_metric_scheduling ----
    metric_name,      \* argument metric_name
    response,         \* the service's answer to the metric request
    sched_response,   \* the service's answer to the scheduling request
    get_metrics_response,   \* the service's answer to the listing request
    verifyResult,     \* what the verification helper returned or raised
    \* ---- TrustyAIServiceRequestHandler._send_request ----
    method,           \* argument method
    httpSent,         \* the HTTP requests the call sent, in order
    sendResult,       \* what the call returned or raised
    \* ---- fixtures: cluster_monitoring_config, user_workload_monitoring_config,
    \* ---- create_ns ----
    fixture,          \* the fixture or context manager in use
    fixPc,            \* "off" | "setup" | "yielded" | "done" | "error"
    clusterObj,       \* the cluster object of the fixture's name and namespace
    preExisting,      \* history: the object as it was before the fixture ran
    created,          \* the fixture's `with` created the object
    yields,           \* values the generator has yielded
    yieldedRef,       \* the value yielded to the test
    fixResult,        \* how the fixture ended
    \* ---- verify_lmevaljob_running / check_pod_status_in_time ----
    lmPc,             \* "off" | "wait_running" | "check" | "done"
    lmStatus,         \* the phase of the LMEvalJob pod (environment)
    statusSet,        \* argument status of check_pod_status_in_time
    duration,         \* argument duration
    wait,             \* argument wait
    elapsed,          \* time since the TimeoutWatch was started
    checkLog,         \* history: the phase seen by each check, in order
    observedRunning,  \* history: wait_for_status saw the pod Running
    lmResult          \* what the call returned or raised

infVars == <<max_retries, batch, infPc, attempt_number, posts, outcomes,
             infResult, exhaustedLogged, sleepFor>>
envVars == <<observations, pending>>
obsVars == <<model_metadata, obsResult>>
waitVars == <<waitPc, current_observations, expected_observations, polls,
              waitResult, reachedAtPoll>>
flowVars == <<files, fileIdx, flowPc, flowCurrent, firstCount, flowResult>>
podVars == <<pods, podPc, modelmesh_pods, podIdx, found_pod_with_env, running_with_env,
             podPolls, podResult>>
metricVars == <<metric_name, response, sched_response, get_metrics_response,
                verifyResult>>
sendVars == <<method, httpSent, sendResult>>
fixVars == <<fixture, fixPc, clusterObj, preExisting, created, yields,
             yieldedRef, fixResult>>
lmVars == <<lmPc, lmStatus, statusSet, duration, wait, elapsed, checkLog,
            observedRunning, lmResult>>
extVars == <<sendVars, fixVars, lmVars>>
vars == <<op, envVars, infVars, obsVars, waitVars, flowVars, podVars, metricVars,
          extVars>>

(***************************************************************************)
(* Bounds                                                                  *)
(***************************************************************************)
MaxAttempts == 5      \* max_retries is drawn from 1..MaxAttempts
MaxBatch == 2         \* batch sizes are drawn from 1..MaxBatch
MaxInitObs == 1       \* observations registered before the test starts
MaxObs == 2           \* data.observations of a metadata document: 0..MaxObs
MaxModels == 2        \* model entries of a metadata document: up to MaxModels
MaxFiles == 2         \* batch files under data_path: up to MaxFiles
WaitPolls == 2        \* samples that fit in wait_timeout (TIMEOUT_2MIN / sleep, scaled)
NumPods == 2          \* pods in the namespace
PodPolls == 2         \* samples that fit in TIMEOUT_5MIN / TIMEOUT_30SEC, scaled
MaxNameLen == 1       \* letters of a metric name
MaxListed == 2        \* entries of a listing of scheduled requests
MaxDuration == 2      \* argument duration is drawn from 0..MaxDuration
MaxWait == 2          \* argument wait is drawn from 1..MaxWait
LmDuration == 2       \* the default duration TIMEOUT_2MIN, scaled

(***************************************************************************)
(* Program constants                                                       *)
(***************************************************************************)
DefaultMaxRetries == 5
HTTP_OK == 200
WaitMultiplier == 1
WaitMin == 4
WaitMax == 10

BatchSizes == 1..MaxBatch

(***************************************************************************)
(* requests / tenacity                                                     *)
(***************************************************************************)
\* What a POST to the inference route can meet: an answer with a 2xx status,
\* an answer with an error status, or no answer at all (requests.post raises).
TransportOutcomes == {"ConnectionError", "Timeout"}
PostOutcomes == {"2xx", "non2xx"} \cup TransportOutcomes

\* requests.exceptions: the subclasses of RequestException that occur here.
IsRequestException(e) == e \in {"ConnectionError", "Timeout", "HTTPError"}

\* The exception leaving one run of _make_request ("None": it returned).
\* requests.post raising leaves `response` unbound, so the handler's first
\* statement, LOGGER.error(response.content), raises UnboundLocalError, which
\* replaces the exception being handled.  With an answer, raise_for_status
\* raises HTTPError on an error status; the handler logs and re-raises it.
_make_request(outcome) ==
    IF outcome \in TransportOutcomes THEN "UnboundLocalError"
    ELSE IF outcome = "non2xx" THEN "HTTPError"
    ELSE "None"

\* Mutant: only transport-level exceptions are retried.
retry_if_transport_exception(e) == e \in TransportOutcomes

\* retry=retry_if_exception_type(requests.RequestException)
retry_if_exception_type(e) == IsRequestException(e)

\* stop=stop_after_attempt(max_retries)
stop_after_attempt(n, max) == n >= max

Pow2(n) == IF n <= 0 THEN 1 ELSE IF n = 1 THEN 2 ELSE IF n = 2 THEN 4
           ELSE IF n = 3 THEN 8 ELSE 16

Min2(a, b) == IF a <= b THEN a ELSE b
Max2(a, b) == IF a >= b THEN a ELSE b

\* wait=wait_exponential(multiplier=1, min=4, max=10):
\* max(min, min(multiplier * 2 ** (attempt_number - 1), max)); 2**4 already
\* exceeds max, so Pow2 saturates there.
wait_exponential(n) == Max2(WaitMin, Min2(WaitMultiplier * Pow2(n - 1), WaitMax))

\* tenacity's decision after an attempt that raised e (Retrying.iter):
\* an exception the retry predicate rejects is re-raised as it is; when the
\* stop condition holds RetryError is raised (reraise is not set); otherwise
\* the call sleeps and is attempted again.
RetryAction(e, n, max) ==
    IF e = "None" THEN "return"
    ELSE IF ~retry_if_exception_type(e) THEN "reraise"
    ELSE IF stop_after_attempt(n, max) THEN "RetryError"
    ELSE "sleep"

\* The exception leaving the decorated _make_request for that decision.
Raised(e, n, max) ==
    IF RetryAction(e, n, max) = "RetryError" THEN "RetryError" ELSE e

\* The outer try of send_inference_request: only a RequestException enters
\* the "All N retry attempts failed" branch, which re-raises it.
OuterCatches(e) == IsRequestException(e)

(***************************************************************************)
(* get_trustyai_number_of_observations                                     *)
(***************************************************************************)
\* What a call returns or raises.
Return(v) == [kind |-> "return", value |-> v, exc |-> "None"]
Raise(e) == [kind |-> "raise", value |-> 0, exc |-> e]
NoResult == [kind |-> "none", value |-> 0, exc |-> "None"]

ParseError == "TypeError: Failed to parse response"

\* A model entry of the metadata document: null, a scalar, {} or an object
\* whose "data" is absent, null, a scalar or an object, whose "observations"
\* is present (hasObs) with value obs or not.
ModelEntry(t, d, h, n) == [t |-> t, data |-> d, hasObs |-> h, obs |-> n]
ObsModel(n) == ModelEntry("obj", "obj", TRUE, n)
ModelVals ==
    {ModelEntry(t, "absent", FALSE, 0) : t \in {"null", "scalar", "emptyobj"}}
    \cup {ModelEntry("obj", d, FALSE, 0) : d \in {"absent", "null", "scalar", "obj"}}
    \cup {ObsModel(n) : n \in 0..MaxObs}

\* The body of the response: text that is not JSON ("invalid"), or a JSON
\* value: null, a number n, a string of length n, a list or an object whose
\* values, in document order, are items.
Body(t, n, items) == [t |-> t, n |-> n, items |-> items]
EntrySeqs == UNION {[1..k -> ModelVals] : k \in 1..MaxModels}
Bodies ==
    {Body(t, 0, <<>>) : t \in {"invalid", "null", "number", "string", "list", "object"}}
    \cup {Body(t, 1, <<>>) : t \in {"number", "string"}}
    \cup {Body("list", 0, <<m>>) : m \in ModelVals}
    \cup {Body("object", 0, items) : items \in EntrySeqs}

\* requests.Response: bool(response) is response.ok (status below 400).
Response(ok, body) == [ok |-> ok, body |-> body]
Responses == {Response(ok, body) : ok \in BOOLEAN, body \in Bodies}

\* Python truth value of a decoded JSON value.
Truthy(body) ==
    CASE body.t = "null" -> FALSE
      [] body.t \in {"number", "string"} -> body.n # 0
      [] OTHER -> body.items # <<>>

ModelTruthy(m) == m.t \in {"scalar", "obj"}

\* model.get("data", {}).get("observations") for a truthy model entry, then
\* the walrus test: a value that is falsy (absent, None or 0) is not returned.
Observations(m) ==
    IF m.t = "scalar" THEN Raise("AttributeError")
    ELSE IF m.data = "absent" THEN Raise("KeyError")
    ELSE IF m.data \in {"null", "scalar"} THEN Raise("AttributeError")
    ELSE IF m.hasObs /\ m.obs # 0 THEN Return(m.obs)
    ELSE Raise("KeyError")

\* The try block: decode, the empty test, the first key and its entry.
ParseMetadata(body) ==
    IF body.t = "invalid" THEN Raise("JSONDecodeError")
    ELSE IF ~Truthy(body) THEN Return(0)
    ELSE IF body.t = "number" THEN Raise("TypeError")
    ELSE IF body.t \in {"string", "list"} THEN Raise("AttributeError")
    ELSE LET model == Head(body.items)
         IN  IF ~ModelTruthy(model) THEN Raise("KeyError")
             ELSE Observations(model)

\* Mutant: the exception is not translated.
ExceptKeepsOriginal(r) == r

\* except Exception as e: raise TypeError(f"Failed to parse response: ...")
ExceptException(r) == IF r.kind = "raise" THEN Raise(ParseError) ELSE r

\* Mutant: the falsy response is not answered with 0 before decoding.
get_observations_without_falsy_test(resp) ==
    ExceptException(ParseMetadata(resp.body))

get_trustyai_number_of_observations(resp) ==
    IF ~resp.ok THEN Return(0)
    ELSE ExceptException(ParseMetadata(resp.body))

\* GET /info of a service that has registered n observations: one model entry
\* with data.observations = n; with nothing registered yet the service may
\* also know no model at all and answer {}.
ServiceInfo(n) ==
    {Response(TRUE, Body("object", 0, <<ObsModel(n)>>))}
    \cup (IF n = 0 THEN {Response(TRUE, Body("object", 0, <<>>))} ELSE {})

(***************************************************************************)
(* timeout_sampler.TimeoutSampler                                          *)
(***************************************************************************)
\* The iterator yields func() every `sleep` seconds while wait_timeout has
\* not elapsed: after n samples and sleeps the time is up when n reaches the
\* number of samples that fit.
SamplerExpired(n, fit) == n >= fit

\* Mutant: the iterator just stops when the time is up.
SamplerStopsSilently == Return(0)

\* When the time is up the iterator raises TimeoutExpiredError; the helpers'
\* `for sample in samples` loops do not catch it.
SamplerTimeout == Raise("TimeoutExpiredError")

\* The sampled condition of wait_for_trustyai_to_register_inference_request:
\* the lambda compares the count captured on entry, not a fresh one.
ObservationsRegistered(current, expected) == current = expected

\* Mutant: the count read before the batch is left out.
ExpectedBatchOnly(current, size) == size

\* expected_observations passed by the workflow for a batch of `size` inputs.
ExpectedObservations(current, size) == current + size

RECURSIVE SumTo(_, _)
SumTo(seq, k) == IF k = 0 THEN 0 ELSE seq[k] + SumTo(seq, k - 1)

\* A pod: whether it still exists, whether its modelmesh-service label is
\* MODELMESH_SERVING, whether a container has MM_PAYLOAD_PROCESSORS, its phase.
PodRec(x, l, e, st) == [exists |-> x, labelled |-> l, hasEnv |-> e, status |-> st]
PodIds == 1..NumPods
PodKinds ==
    {PodRec(TRUE, FALSE, TRUE, "Pending")}
    \cup {PodRec(TRUE, TRUE, e, st) : e \in BOOLEAN, st \in {"Pending", "Running"}}
NoPods == [p \in PodIds |-> PodRec(FALSE, FALSE, FALSE, "Pending")]

\* The ids in 1..n, in increasing order, of the pods satisfying keep.
RECURSIVE FilterPods(_, _)
FilterPods(n, keep) ==
    IF n = 0 THEN <<>>
    ELSE IF n \in keep THEN Append(FilterPods(n - 1, keep), n)
    ELSE FilterPods(n - 1, keep)

\* [pod for pod in Pod.get(...) if pod.labels.get("modelmesh-service") == MODELMESH_SERVING]
ListModelmeshPods(ps) ==
    FilterPods(NumPods, {p \in PodIds : ps[p].exists /\ ps[p].labelled})

(***************************************************************************)
(* Metric verification                                                     *)
(***************************************************************************)
\* Metric names are sequences of letters, so that str.lower() is computed.
Chars == {"a", "A", "b"}
LowerChar(c) == IF c = "A" THEN "a" ELSE c
Lower(name) == [i \in 1..Len(name) |-> LowerChar(name[i])]
NamesUpTo(lo) == UNION {[1..k -> Chars] : k \in lo..MaxNameLen}
MetricNames == NamesUpTo(1)

RECURSIVE Str(_)
Str(name) == IF name = <<>> THEN "" ELSE Head(name) \o Str(Tail(name))

\* A field of a JSON answer is absent, the empty string or something else.
FieldVals == {"absent", "", "v"}
StatusCodes == {HTTP_OK, 500}

\* The answer to a metric request: whether its text is JSON, the status code
\* and the fields of the decoded object.
MetricResponse(j, sc, ts, ty, va, sd, hn, nm, id, th) ==
    [json_ok |-> j, status_code |-> sc, timestamp |-> ts, type |-> ty,
     value |-> va, specificDefinition |-> sd, hasName |-> hn, name |-> nm,
     id |-> id, thresholds |-> th]
NotJsonMetricResponse ==
    MetricResponse(FALSE, 500, "absent", "absent", "absent", "absent", FALSE,
                   <<>>, "absent", "absent")
MetricResponses ==
    {NotJsonMetricResponse}
    \cup {MetricResponse(TRUE, sc, ts, ty, va, sd, TRUE, nm, id, th) :
            sc \in StatusCodes, ts \in FieldVals,
            ty \in {"absent", "metric", "other"}, va \in FieldVals,
            sd \in FieldVals, nm \in NamesUpTo(0), id \in FieldVals,
            th \in FieldVals}
    \cup {MetricResponse(TRUE, sc, ts, ty, va, sd, FALSE, <<>>, id, th) :
            sc \in StatusCodes, ts \in FieldVals,
            ty \in {"absent", "metric", "other"}, va \in FieldVals,
            sd \in FieldVals, id \in FieldVals, th \in FieldVals}

\* What a verification helper returns or raises; msgs are the lines of the
\* MetricValidationError text.
VReturn == [kind |-> "return", exc |-> "None", msgs |-> <<>>]
VRaise(e) == [kind |-> "raise", exc |-> e, msgs |-> <<>>]
ValidationError(errors) ==
    [kind |-> "raise", exc |-> "MetricValidationError", msgs |-> errors]
VNone == [kind |-> "none", exc |-> "None", msgs |-> <<>>]

\* if errors: raise MetricValidationError("\n".join(errors))
RaiseIfErrors(errors) ==
    IF errors # <<>> THEN ValidationError(errors) ELSE VReturn

\* errors.append(msg) under its `if`.
AppendIf(errors, cond, msg) == IF cond THEN Append(errors, msg) ELSE errors

\* The fields response_data[...] subscripts in verify_trustyai_metric_request,
\* in the order of the checks; a subscript of an absent field raises KeyError.
MetricFieldAbsent(r) ==
    \/ r.timestamp = "absent" \/ r.type = "absent" \/ r.value = "absent"
    \/ r.specificDefinition = "absent" \/ ~r.hasName \/ r.id = "absent"
    \/ r.thresholds = "absent"

\* The eight checks of verify_trustyai_metric_request on a decoded answer with
\* every field present.
MetricErrors(r, name) ==
    LET e1 == AppendIf(<<>>, r.status_code # HTTP_OK,
                       "Unexpected status code: " \o ToString(r.status_code))
        e2 == AppendIf(e1, r.timestamp = "", "Timestamp is empty")
        e3 == AppendIf(e2, r.type # "metric", "Incorrect type")
        e4 == AppendIf(e3, r.value = "", "Value is empty")
        e5 == AppendIf(e4, r.specificDefinition = "", "Specific definition is empty")
        e6 == AppendIf(e5, Lower(r.name) # name,
                       "Wrong name: " \o Str(r.name) \o ", expected: " \o Str(name))
        e7 == AppendIf(e6, r.id = "", "ID is empty")
    IN  AppendIf(e7, r.thresholds = "", "Thresholds are empty")

verify_trustyai_metric_request(r, name) ==
    IF ~r.json_ok THEN VRaise("JSONDecodeError")
    ELSE IF MetricFieldAbsent(r) THEN VRaise("KeyError")
    ELSE RaiseIfErrors(MetricErrors(r, name))

\* The answer to a scheduling request.
SchedResponse(j, sc, rid, ts) ==
    [json_ok |-> j, status_code |-> sc, requestId |-> rid, timestamp |-> ts]
RequestIds == {"id1", "id2"}
SchedResponses ==
    {SchedResponse(FALSE, 500, "absent", "absent")}
    \cup {SchedResponse(TRUE, sc, rid, ts) :
            sc \in StatusCodes, rid \in {"absent", ""} \cup RequestIds,
            ts \in FieldVals}

\* The answer to the listing request: "requests" is absent or a list of
\* entries, each with an id or without one.
ListResponse(j, sc, hr, reqs) ==
    [json_ok |-> j, status_code |-> sc, hasRequests |-> hr, requests |-> reqs]
Listings == UNION {[1..k -> {"absent"} \cup RequestIds] : k \in 0..MaxListed}
ListResponses ==
    {ListResponse(FALSE, 500, FALSE, <<>>)}
    \cup {ListResponse(TRUE, sc, FALSE, <<>>) : sc \in StatusCodes}
    \cup {ListResponse(TRUE, sc, TRUE, reqs) : sc \in StatusCodes, reqs \in Listings}

\* The checks on the scheduling answer.
SchedErrors(r) ==
    LET e1 == AppendIf(<<>>, r.requestId = "", "Request ID is empty")
        e2 == AppendIf(e1, r.status_code # HTTP_OK,
                       "Unexpected status code: " \o ToString(r.status_code))
    IN  AppendIf(e2, r.timestamp = "", "Timestamp is empty")

\* Mutant: the listed entry's id is not compared with the request id.
ListErrorsCountOnly(errors, g, request_id) ==
    LET e1 == AppendIf(errors, g.status_code # HTTP_OK,
                       "Unexpected status code for metrics response: "
                           \o ToString(g.status_code))
    IN  IF ~g.hasRequests \/ g.requests = <<>>
        THEN Append(e1, "No requests found in metrics response")
        ELSE IF Len(g.requests) # 1
        THEN Append(e1, "Expected exactly 1 request, got " \o ToString(Len(g.requests)))
        ELSE e1

\* The checks on the listing answer, appended to the errors so far.
ListErrors(errors, g, request_id) ==
    LET e1 == AppendIf(errors, g.status_code # HTTP_OK,
                       "Unexpected status code for metrics response: "
                           \o ToString(g.status_code))
    IN  IF ~g.hasRequests \/ g.requests = <<>>
        THEN Append(e1, "No requests found in metrics response")
        ELSE IF Len(g.requests) # 1
        THEN Append(e1, "Expected exactly 1 request, got " \o ToString(Len(g.requests)))
        ELSE AppendIf(e1, g.requests[1] # request_id,
                      "Request ID mismatch. Expected: " \o request_id
                          \o ", Got: " \o g.requests[1])

verify_trustyai_metric_scheduling(r, g) ==
    IF ~r.json_ok THEN VRaise("JSONDecodeError")
    ELSE IF r.requestId = "absent" \/ r.timestamp = "absent" THEN VRaise("KeyError")
    ELSE IF ~g.json_ok THEN VRaise("JSONDecodeError")
    ELSE IF g.hasRequests /\ Len(g.requests) = 1 /\ g.requests[1] = "absent"
    THEN VRaise("KeyError")
    ELSE RaiseIfErrors(ListErrors(SchedErrors(r), g, r.requestId))

(***************************************************************************)
(* TrustyAIServiceRequestHandler._send_request                             *)
(***************************************************************************)
Methods == {"GET", "POST", "PUT", "DELETE", "get"}

\* What requests.get / requests.post meets: an answer, or an exception.
SendAnswers == {"response", "ConnectionError"}

\* Mutant: every method passes the test.
AnyMethodSupported(m) == TRUE

\* if method not in ("GET", "POST"): raise ValueError(...)
SupportedMethod(m) == m \in {"GET", "POST"}

\* The requests the call sends and what it returns or raises: nothing is
\* sent for an unsupported method; otherwise requests.get or requests.post is
\* called once and its answer returned, its exception left to the caller.
\* A method that passed the test and is neither GET nor POST falls off the
\* if/elif and None is returned.
_send_request(m, answer) ==
    IF ~SupportedMethod(m) THEN [sent |-> <<>>, result |-> Raise("ValueError")]
    ELSE IF m \in {"GET", "POST"}
    THEN [sent |-> <<m>>,
          result |-> IF answer = "response" THEN Return(0) ELSE Raise(answer)]
    ELSE [sent |-> <<>>, result |-> Return(0)]

(***************************************************************************)
(* Fixtures: scoped cluster resources                                      *)
(***************************************************************************)
ConfigMapFixtures == {"cluster_monitoring_config", "user_workload_monitoring_config"}
Fixtures == ConfigMapFixtures \cup {"create_ns"}

\* name and namespace each fixture passes to the resource.
ResourceName(f) ==
    CASE f = "cluster_monitoring_config" -> "cluster-monitoring-config"
      [] f = "user_workload_monitoring_config" -> "user-workload-monitoring-config"
      [] OTHER -> "name"
ResourceNamespace(f) ==
    CASE f = "cluster_monitoring_config" -> "openshift-monitoring"
      [] f = "user_workload_monitoring_config" -> "openshift-user-workload-monitoring"
      [] OTHER -> ""

\* A cluster object: whether it exists and who wrote its content.
ClusterObj(x, data) == [exists |-> x, data |-> data]
Absent == ClusterObj(FALSE, "none")
\* A reference to a resource: the object entered by `with` ("entered") or a
\* bare ConfigMap(name=..., namespace=...) ("reference").
Ref(kind, name, ns) == [kind |-> kind, name |-> name, namespace |-> ns]
NoRef == Ref("none", "", "")

\* Mutant: no fixture handles the conflict.
NeverCatchesConflict(f) == FALSE

\* The ConfigMap fixtures wrap their `with` in try/except ConflictError;
\* create_ns does not.
CatchesConflict(f) == f \in ConfigMapFixtures

\* Mutant: teardown deletes the object whether the fixture created it or not.
AlwaysDeletes(ref) == TRUE

\* Leaving the scope deletes the object only through the `with` that was
\* entered (__exit__); the bare reference yielded after a conflict is not a
\* context in use and nothing is deleted for it.
DeletesOnExit(ref) == ref.kind = "entered"

(***************************************************************************)
(* verify_lmevaljob_running, check_pod_status_in_time                      *)
(***************************************************************************)
PodPhases == {"Pending", "Running", "Succeeded", "Failed"}

\* The phases a pod can move to.
NextPhases(st) ==
    CASE st = "Pending" -> {"Running", "Failed"}
      [] st = "Running" -> {"Succeeded", "Failed"}
      [] OTHER -> {}

\* status={Pod.Status.RUNNING, Pod.Status.SUCCEEDED}
RunningOrSucceeded == {"Running", "Succeeded"}
StatusSets == {RunningOrSucceeded, {"Running"}}

\* TimeoutWatch(timeout=duration).remaining_time()
remaining_time(d, e) == d - e

\* Mutant: the assertion is skipped.
AssertSkipped(st, set) == TRUE

\* assert pod.status in status
StatusAsserted(st, set) == st \in set

FileLists == UNION {[1..k -> BatchSizes] : k \in 0..MaxFiles}

(***************************************************************************)
(* Initial state                                                           *)
(***************************************************************************)
InfInit ==
    /\ max_retries = DefaultMaxRetries
    /\ batch = 0
    /\ infPc = "off"
    /\ attempt_number = 0
    /\ posts = 0
    /\ outcomes = <<>>
    /\ infResult = "none"
    /\ exhaustedLogged = FALSE
    /\ sleepFor = 0

ObsInit ==
    /\ model_metadata = Response(TRUE, Body("object", 0, <<>>))
    /\ obsResult = NoResult

WaitInit ==
    /\ waitPc = "off"
    /\ current_observations = 0
    /\ expected_observations = 0
    /\ polls = 0
    /\ waitResult = NoResult
    /\ reachedAtPoll = FALSE

FlowInit ==
    /\ files = <<>>
    /\ fileIdx = 0
    /\ flowPc = "off"
    /\ flowCurrent = 0
    /\ firstCount = 0
    /\ flowResult = NoResult

PodInit ==
    /\ pods = NoPods
    /\ podPc = "off"
    /\ modelmesh_pods = <<>>
    /\ podIdx = 0
    /\ found_pod_with_env = FALSE
    /\ running_with_env = {}
    /\ podPolls = 0
    /\ podResult = NoResult

MetricInit ==
    /\ metric_name = <<>>
    /\ response = NotJsonMetricResponse
    /\ sched_response = SchedResponse(FALSE, 500, "absent", "absent")
    /\ get_metrics_response = ListResponse(FALSE, 500, FALSE, <<>>)
    /\ verifyResult = VNone

SendInit ==
    /\ method = "GET"
    /\ httpSent = <<>>
    /\ sendResult = NoResult

FixInit ==
    /\ fixture = "create_ns"
    /\ fixPc = "off"
    /\ clusterObj = Absent
    /\ preExisting = Absent
    /\ created = FALSE
    /\ yields = 0
    /\ yieldedRef = NoRef
    /\ fixResult = NoResult

LmInit ==
    /\ lmPc = "off"
    /\ lmStatus = "Pending"
    /\ statusSet = RunningOrSucceeded
    /\ duration = 0
    /\ wait = 1
    /\ elapsed = 0
    /\ checkLog = <<>>
    /\ observedRunning = FALSE
    /\ lmResult = NoResult

Init ==
    /\ op = "none"
    /\ observations \in 0..MaxInitObs
    /\ pending = 0
    /\ InfInit
    /\ ObsInit
    /\ WaitInit
    /\ FlowInit
    /\ PodInit
    /\ MetricInit
    /\ SendInit
    /\ FixInit
    /\ LmInit

(***************************************************************************)
(* The service                                                             *)
(***************************************************************************)
\* The service registers the observations of a received batch some time
\* after the model answered (eventual consistency).
RegisterObservations ==
    /\ pending > 0
    /\ observations' = observations + pending
    /\ pending' = 0
    /\ UNCHANGED <<op, infVars, obsVars, waitVars, flowVars, podVars, metricVars, extVars>>

(***************************************************************************)
(* send_inference_request                                                  *)
(***************************************************************************)
\* Entering send_inference_request: the first attempt is about to be made.
StartInference(m, b) ==
    /\ max_retries' = m
    /\ batch' = b
    /\ infPc' = "attempt"
    /\ attempt_number' = 1
    /\ posts' = 0
    /\ outcomes' = <<>>
    /\ infResult' = "none"
    /\ exhaustedLogged' = FALSE
    /\ sleepFor' = 0

call_send_inference_request ==
    /\ op = "none"
    /\ op' = "send_inference_request"
    /\ \E m \in 1..MaxAttempts, b \in BatchSizes : StartInference(m, b)
    /\ UNCHANGED <<envVars, obsVars, waitVars, flowVars, podVars, metricVars, extVars>>

\* One attempt: the POST, raise_for_status, the handler, and tenacity's
\* decision; when the call ends, the outer try of send_inference_request.
MakeRequest ==
    /\ infPc = "attempt"
    /\ \E outcome \in PostOutcomes :
        LET e == _make_request(outcome)
            act == RetryAction(e, attempt_number, max_retries)
            r == Raised(e, attempt_number, max_retries)
        IN  /\ posts' = posts + 1
            /\ outcomes' = Append(outcomes, outcome)
            /\ pending' = IF outcome = "2xx" THEN pending + batch ELSE pending
            /\ IF act = "sleep"
               THEN /\ infPc' = "sleep"
                    /\ sleepFor' = wait_exponential(attempt_number)
                    /\ UNCHANGED <<infResult, exhaustedLogged>>
               ELSE /\ infPc' = "done"
                    /\ infResult' = IF act = "return" THEN "ok" ELSE r
                    /\ exhaustedLogged' = (act # "return" /\ OuterCatches(r))
                    /\ UNCHANGED sleepFor
    /\ UNCHANGED <<op, observations, max_retries, batch, attempt_number,
                   obsVars, waitVars, flowVars, podVars, metricVars, extVars>>

\* The backoff sleep is over: tenacity makes the next attempt.
BackoffSleep ==
    /\ infPc = "sleep"
    /\ infPc' = "attempt"
    /\ attempt_number' = attempt_number + 1
    /\ UNCHANGED <<op, envVars, max_retries, batch, posts, outcomes,
                   infResult, exhaustedLogged, sleepFor, obsVars, waitVars,
                   flowVars, podVars, metricVars, extVars>>

(***************************************************************************)
(* get_trustyai_number_of_observations, called on any response             *)
(***************************************************************************)
call_get_trustyai_number_of_observations ==
    /\ op = "none"
    /\ op' = "get_trustyai_number_of_observations"
    /\ \E resp \in Responses :
        /\ model_metadata' = resp
        /\ obsResult' = get_trustyai_number_of_observations(resp)
    /\ UNCHANGED <<envVars, infVars, waitVars, flowVars, podVars, metricVars, extVars>>

(***************************************************************************)
(* wait_for_trustyai_to_register_inference_request                         *)
(***************************************************************************)
\* Entering the wait with argument expected.
StartWait(expected) ==
    /\ waitPc' = "read"
    /\ expected_observations' = expected
    /\ current_observations' = 0
    /\ polls' = 0
    /\ waitResult' = NoResult
    /\ reachedAtPoll' = FALSE

\* current_observations = get_trustyai_number_of_observations(...), once,
\* before the sampler is built.
WaitRead ==
    /\ waitPc = "read"
    /\ \E resp \in ServiceInfo(observations) :
        LET r == get_trustyai_number_of_observations(resp)
        IN  IF r.kind = "raise"
            THEN /\ waitPc' = "done"
                 /\ waitResult' = r
                 /\ UNCHANGED current_observations
            ELSE /\ waitPc' = "poll"
                 /\ current_observations' = r.value
                 /\ UNCHANGED waitResult
    /\ UNCHANGED <<op, envVars, infVars, obsVars, expected_observations, polls,
                   reachedAtPoll, flowVars, podVars, metricVars, extVars>>

\* One sample of the sampler and the loop body: return on a true sample,
\* otherwise sleep until the next one.
WaitSample ==
    /\ waitPc = "poll"
    /\ ~SamplerExpired(polls, WaitPolls)
    /\ reachedAtPoll' = (reachedAtPoll \/ observations = expected_observations)
    /\ IF ObservationsRegistered(current_observations, expected_observations)
       THEN /\ waitPc' = "done"
            /\ waitResult' = Return(0)
            /\ UNCHANGED polls
       ELSE /\ polls' = polls + 1
            /\ UNCHANGED <<waitPc, waitResult>>
    /\ UNCHANGED <<op, envVars, infVars, obsVars, current_observations,
                   expected_observations, flowVars, podVars, metricVars, extVars>>

\* wait_timeout has elapsed without a true sample.
WaitTimeout ==
    /\ waitPc = "poll"
    /\ SamplerExpired(polls, WaitPolls)
    /\ waitPc' = "done"
    /\ waitResult' = SamplerTimeout
    /\ UNCHANGED <<op, envVars, infVars, obsVars, current_observations,
                   expected_observations, polls, reachedAtPoll, flowVars,
                   podVars, metricVars, extVars>>

(***************************************************************************)
(* send_inference_requests_and_verify_trustyai_service                     *)
(***************************************************************************)
call_send_inference_requests_and_verify_trustyai_service ==
    /\ op = "none"
    /\ op' = "send_inference_requests_and_verify_trustyai_service"
    /\ \E fs \in FileLists :
        /\ files' = fs
        /\ fileIdx' = IF fs = <<>> THEN 0 ELSE 1
        /\ flowPc' = IF fs = <<>> THEN "done" ELSE "read"
        /\ flowResult' = IF fs = <<>> THEN Return(0) ELSE NoResult
    /\ UNCHANGED <<envVars, infVars, obsVars, waitVars, flowCurrent, firstCount,
                   podVars, metricVars, extVars>>

\* The count is read before the batch is sent; then send_inference_request
\* is entered with the default max_retries.
FlowRead ==
    /\ flowPc = "read"
    /\ \E resp \in ServiceInfo(observations) :
        LET r == get_trustyai_number_of_observations(resp)
        IN  IF r.kind = "raise"
            THEN /\ flowPc' = "done"
                 /\ flowResult' = r
                 /\ UNCHANGED <<flowCurrent, firstCount, infVars>>
            ELSE /\ flowPc' = "send"
                 /\ flowCurrent' = r.value
                 /\ firstCount' = IF fileIdx = 1 THEN r.value ELSE firstCount
                 /\ StartInference(DefaultMaxRetries, files[fileIdx])
                 /\ UNCHANGED flowResult
    /\ UNCHANGED <<op, envVars, obsVars, waitVars, files, fileIdx, podVars,
                   metricVars, extVars>>

\* send_inference_request is over: its exception ends the helper, otherwise
\* the wait for the count read before plus the batch size is entered.
FlowSent ==
    /\ flowPc = "send"
    /\ infPc = "done"
    /\ IF infResult = "ok"
       THEN /\ flowPc' = "wait"
            /\ StartWait(ExpectedObservations(flowCurrent, files[fileIdx]))
            /\ UNCHANGED flowResult
       ELSE /\ flowPc' = "done"
            /\ flowResult' = Raise(infResult)
            /\ UNCHANGED waitVars
    /\ UNCHANGED <<op, envVars, infVars, obsVars, files, fileIdx, flowCurrent,
                   firstCount, podVars, metricVars, extVars>>

\* The wait is over: its exception ends the helper, otherwise the next file
\* is processed.
FlowWaited ==
    /\ flowPc = "wait"
    /\ waitPc = "done"
    /\ IF waitResult.kind = "raise"
       THEN /\ flowPc' = "done"
            /\ flowResult' = waitResult
            /\ UNCHANGED fileIdx
       ELSE IF fileIdx = Len(files)
       THEN /\ flowPc' = "done"
            /\ flowResult' = Return(0)
            /\ UNCHANGED fileIdx
       ELSE /\ flowPc' = "read"
            /\ fileIdx' = fileIdx + 1
            /\ UNCHANGED flowResult
    /\ UNCHANGED <<op, envVars, infVars, obsVars, waitVars, files, flowCurrent,
                   firstCount, podVars, metricVars, extVars>>

(***************************************************************************)
(* wait_for_modelmesh_pods_registered_by_trustyai                          *)
(***************************************************************************)
otherVars == <<envVars, infVars, obsVars, waitVars, flowVars, metricVars, extVars>>

call_wait_for_modelmesh_pods_registered_by_trustyai ==
    /\ op = "none"
    /\ op' = "wait_for_modelmesh_pods_registered_by_trustyai"
    /\ pods' \in [PodIds -> PodKinds]
    /\ podPc' = "list"
    /\ UNCHANGED <<otherVars, modelmesh_pods, podIdx, found_pod_with_env,
                   running_with_env, podPolls, podResult>>

\* A pending pod starts running.
PodStarts ==
    /\ \E p \in PodIds :
        /\ pods[p].exists /\ pods[p].status = "Pending"
        /\ pods' = [pods EXCEPT ![p].status = "Running"]
    /\ UNCHANGED <<op, otherVars, podPc, modelmesh_pods, podIdx,
                   found_pod_with_env, running_with_env, podPolls, podResult>>

\* A pod is deleted.
PodDeleted ==
    /\ \E p \in PodIds :
        /\ pods[p].exists
        /\ pods' = [pods EXCEPT ![p].exists = FALSE]
    /\ UNCHANGED <<op, otherVars, podPc, modelmesh_pods, podIdx,
                   found_pod_with_env, running_with_env, podPolls, podResult>>

\* The sampler's loop body for a sample: return on a true one, otherwise
\* sleep until the next one.
PodSampleDone(sample) ==
    IF sample
    THEN /\ podPc' = "done"
         /\ podResult' = Return(0)
         /\ UNCHANGED podPolls
    ELSE /\ podPc' = "list"
         /\ podPolls' = podPolls + 1
         /\ UNCHANGED podResult

\* The loop of _check_pods_ready_with_env moves to the next pod; after the
\* last one the function returns found_pod_with_env.
PodContinue(found) ==
    IF podIdx < Len(modelmesh_pods)
    THEN /\ podIdx' = podIdx + 1
         /\ podPc' = "env"
         /\ UNCHANGED <<podPolls, podResult>>
    ELSE /\ PodSampleDone(found)
         /\ UNCHANGED podIdx

\* A sample starts: _check_pods_ready_with_env lists the ModelMesh pods.
PodsList ==
    /\ podPc = "list"
    /\ ~SamplerExpired(podPolls, PodPolls)
    /\ modelmesh_pods' = ListModelmeshPods(pods)
    /\ found_pod_with_env' = FALSE
    /\ running_with_env' = {}
    /\ IF ListModelmeshPods(pods) = <<>>
       THEN /\ PodSampleDone(FALSE)
            /\ podIdx' = 0
       ELSE /\ podIdx' = 1
            /\ podPc' = "env"
            /\ UNCHANGED <<podPolls, podResult>>
    /\ UNCHANGED <<op, otherVars, pods>>

\* The containers of the pod are read (pod.instance): NotFoundError for a
\* deleted pod is swallowed and the loop continues; a pod with the variable
\* sets found_pod_with_env and has its status checked next.
PodCheckEnv ==
    /\ podPc = "env"
    /\ LET pod == pods[modelmesh_pods[podIdx]]
       IN  IF pod.exists /\ pod.hasEnv
           THEN /\ found_pod_with_env' = TRUE
                /\ podPc' = "status"
                /\ UNCHANGED <<podIdx, podPolls, podResult>>
           ELSE /\ PodContinue(found_pod_with_env)
                /\ UNCHANGED found_pod_with_env
    /\ UNCHANGED <<op, otherVars, pods, modelmesh_pods, running_with_env>>

\* pod.status is read: NotFoundError for a deleted pod is swallowed and the
\* loop continues; a pod that is not Running ends the sample with False.
PodCheckStatus ==
    /\ podPc = "status"
    /\ LET pod == pods[modelmesh_pods[podIdx]]
       IN  /\ IF pod.exists /\ pod.status # "Running"
              THEN /\ PodSampleDone(FALSE)
                   /\ UNCHANGED podIdx
              ELSE PodContinue(found_pod_with_env)
           /\ running_with_env' =
                  IF pod.exists /\ pod.status = "Running"
                  THEN running_with_env \cup {modelmesh_pods[podIdx]}
                  ELSE running_with_env
    /\ UNCHANGED <<op, otherVars, pods, modelmesh_pods, found_pod_with_env>>

\* wait_timeout has elapsed without a true sample.
PodsTimeout ==
    /\ podPc = "list"
    /\ SamplerExpired(podPolls, PodPolls)
    /\ podPc' = "done"
    /\ podResult' = SamplerTimeout
    /\ UNCHANGED <<op, otherVars, pods, modelmesh_pods, podIdx,
                   found_pod_with_env, running_with_env, podPolls>>

(***************************************************************************)
(* verify_trustyai_metric_request, verify_trustyai_metric_scheduling       *)
(***************************************************************************)
call_verify_trustyai_metric_request ==
    /\ op = "none"
    /\ op' = "verify_trustyai_metric_request"
    /\ \E name \in MetricNames, r \in MetricResponses :
        /\ metric_name' = name
        /\ response' = r
        /\ verifyResult' = verify_trustyai_metric_request(r, name)
    /\ UNCHANGED <<envVars, infVars, obsVars, waitVars, flowVars, podVars,
                   sched_response, get_metrics_response, extVars>>

call_verify_trustyai_metric_scheduling ==
    /\ op = "none"
    /\ op' = "verify_trustyai_metric_scheduling"
    /\ \E name \in MetricNames, r \in SchedResponses, g \in ListResponses :
        /\ metric_name' = name
        /\ sched_response' = r
        /\ get_metrics_response' = g
        /\ verifyResult' = verify_trustyai_metric_scheduling(r, g)
    /\ UNCHANGED <<envVars, infVars, obsVars, waitVars, flowVars, podVars,
                   response, extVars>>

(***************************************************************************)
(* TrustyAIServiceRequestHandler._send_request                             *)
(***************************************************************************)
allButExt == <<envVars, infVars, obsVars, waitVars, flowVars, podVars, metricVars>>

call__send_request ==
    /\ op = "none"
    /\ op' = "_send_request"
    /\ \E m \in Methods, answer \in SendAnswers :
        /\ method' = m
        /\ httpSent' = _send_request(m, answer).sent
        /\ sendResult' = _send_request(m, answer).result
    /\ UNCHANGED <<allButExt, fixVars, lmVars>>

(***************************************************************************)
(* Fixtures                                                                *)
(***************************************************************************)
\* The fixture is requested; the object of its name may already be in the
\* cluster, written by someone else.
call_fixture ==
    /\ op = "none"
    /\ op' = "fixture"
    /\ fixture' \in Fixtures
    /\ \E obj \in {Absent, ClusterObj(TRUE, "other")} :
        /\ clusterObj' = obj
        /\ preExisting' = obj
    /\ fixPc' = "setup"
    /\ UNCHANGED <<allButExt, sendVars, lmVars, created, yields, yieldedRef, fixResult>>

\* Up to the first yield: `with Resource(...)` creates the object; on an
\* object that exists the create fails with ConflictError, which the
\* ConfigMap fixtures answer by yielding a bare reference of the same name
\* and namespace and which create_ns lets through.
FixtureSetup ==
    /\ fixPc = "setup"
    /\ IF ~clusterObj.exists
       THEN /\ clusterObj' = ClusterObj(TRUE, "fixture")
            /\ created' = TRUE
            /\ yields' = yields + 1
            /\ yieldedRef' = Ref("entered", ResourceName(fixture),
                                 ResourceNamespace(fixture))
            /\ fixPc' = "yielded"
            /\ UNCHANGED fixResult
       ELSE IF CatchesConflict(fixture)
       THEN /\ yields' = yields + 1
            /\ yieldedRef' = Ref("reference", ResourceName(fixture),
                                 ResourceNamespace(fixture))
            /\ fixPc' = "yielded"
            /\ UNCHANGED <<clusterObj, created, fixResult>>
       ELSE /\ fixPc' = "error"
            /\ fixResult' = Raise("ConflictError")
            /\ UNCHANGED <<clusterObj, created, yields, yieldedRef>>
    /\ UNCHANGED <<op, allButExt, sendVars, lmVars, fixture, preExisting>>

\* The scope ends and the generator is resumed after its yield: the `with`
\* that was entered exits and deletes its object; then the generator ends.
FixtureTeardown ==
    /\ fixPc = "yielded"
    /\ fixPc' = "done"
    /\ clusterObj' = IF DeletesOnExit(yieldedRef) THEN Absent ELSE clusterObj
    /\ fixResult' = Return(0)
    /\ UNCHANGED <<op, allButExt, sendVars, lmVars, fixture, preExisting, created,
                   yields, yieldedRef>>

(***************************************************************************)
(* verify_lmevaljob_running, check_pod_status_in_time                      *)
(***************************************************************************)
\* Entering check_pod_status_in_time: the TimeoutWatch is started.
StartCheck(set, d, w) ==
    /\ lmPc' = "check"
    /\ statusSet' = set
    /\ duration' = d
    /\ wait' = w
    /\ elapsed' = 0
    /\ checkLog' = <<>>

call_check_pod_status_in_time ==
    /\ op = "none"
    /\ op' = "check_pod_status_in_time"
    /\ lmStatus' \in PodPhases
    /\ \E set \in StatusSets, d \in 0..MaxDuration, w \in 1..MaxWait :
        StartCheck(set, d, w)
    /\ UNCHANGED <<allButExt, sendVars, fixVars, observedRunning, lmResult>>

call_verify_lmevaljob_running ==
    /\ op = "none"
    /\ op' = "verify_lmevaljob_running"
    /\ lmStatus' \in {"Pending", "Running"}
    /\ lmPc' = "wait_running"
    /\ UNCHANGED <<allButExt, sendVars, fixVars, statusSet, duration, wait,
                   elapsed, checkLog, observedRunning, lmResult>>

\* The pod moves to another phase.
LmPodChanges ==
    /\ lmPc \in {"wait_running", "check"}
    /\ lmStatus' \in NextPhases(lmStatus)
    /\ UNCHANGED <<op, allButExt, sendVars, fixVars, lmPc, statusSet, duration,
                   wait, elapsed, checkLog, observedRunning, lmResult>>

\* wait_for_status(status=RUNNING) sees the pod Running; then
\* check_pod_status_in_time is entered with the default duration and wait.
LmSeenRunning ==
    /\ lmPc = "wait_running"
    /\ lmStatus = "Running"
    /\ observedRunning' = TRUE
    /\ StartCheck(RunningOrSucceeded, LmDuration, 1)
    /\ UNCHANGED <<op, allButExt, sendVars, fixVars, lmStatus, lmResult>>

\* wait_for_status gives up on a pod that is not Running.
LmWaitTimeout ==
    /\ lmPc = "wait_running"
    /\ lmStatus # "Running"
    /\ lmPc' = "done"
    /\ lmResult' = SamplerTimeout
    /\ UNCHANGED <<op, allButExt, sendVars, fixVars, lmStatus, statusSet,
                   duration, wait, elapsed, checkLog, observedRunning>>

\* One evaluation of the while condition and, if it holds, one run of the
\* body: the assertion and the sleep.
LmCheck ==
    /\ lmPc = "check"
    /\ IF remaining_time(duration, elapsed) > 0
       THEN /\ checkLog' = Append(checkLog, lmStatus)
            /\ IF StatusAsserted(lmStatus, statusSet)
               THEN /\ elapsed' = elapsed + wait
                    /\ UNCHANGED <<lmPc, lmResult>>
               ELSE /\ lmPc' = "done"
                    /\ lmResult' = Raise("AssertionError")
                    /\ UNCHANGED elapsed
       ELSE /\ lmPc' = "done"
            /\ lmResult' = Return(0)
            /\ UNCHANGED <<elapsed, checkLog>>
    /\ UNCHANGED <<op, allButExt, sendVars, fixVars, lmStatus, statusSet,
                   duration, wait, observedRunning>>

Next ==
    \/ RegisterObservations
    \/ call_send_inference_request
    \/ MakeRequest
    \/ BackoffSleep
    \/ call_get_trustyai_number_of_observations
    \/ WaitRead
    \/ WaitSample
    \/ WaitTimeout
    \/ call_send_inference_requests_and_verify_trustyai_service
    \/ FlowRead
    \/ FlowSent
    \/ FlowWaited
    \/ call_wait_for_modelmesh_pods_registered_by_trustyai
    \/ PodStarts
    \/ PodDeleted
    \/ PodsList
    \/ PodCheckEnv
    \/ PodCheckStatus
    \/ PodsTimeout
    \/ call_verify_trustyai_metric_request
    \/ call_verify_trustyai_metric_scheduling
    \/ call__send_request
    \/ call_fixture
    \/ FixtureSetup
    \/ FixtureTeardown
    \/ call_check_pod_status_in_time
    \/ call_verify_lmevaljob_running
    \/ LmPodChanges
    \/ LmSeenRunning
    \/ LmWaitTimeout
    \/ LmCheck

Spec == Init /\ [][Next]_vars

(***************************************************************************)
(* Claims                                                                  *)
(***************************************************************************)
\* Every attempt of the call met a transport-level exception.
AllTransport ==
    /\ outcomes # <<>>
    /\ \A i \in 1..Len(outcomes) : outcomes[i] \in TransportOutcomes

\* Every attempt of the call was answered with an error status.
AllHttpErrors ==
    /\ outcomes # <<>>
    /\ \A i \in 1..Len(outcomes) : outcomes[i] = "non2xx"

\* The exception the last attempt's POST or raise_for_status raised.
LastAttemptException ==
    IF outcomes[Len(outcomes)] = "non2xx" THEN "HTTPError"
    ELSE outcomes[Len(outcomes)]

\* C1: when every attempt of send_inference_request fails with a
\* transport-level exception, the request has been attempted exactly
\* max_retries times when the call fails.
C1_ExactlyMaxRetriesAttempts ==
    (infPc = "done" /\ AllTransport) => (posts = max_retries /\ infResult # "ok")

\* C2: when send_inference_request has exhausted its attempts, the exception
\* reaching the caller is the one the last attempt raised, a
\* RequestException, propagated by the "All N retry attempts failed" branch.
C2_LastExceptionUnchanged ==
    (infPc = "done" /\ posts = max_retries /\ infResult # "ok") =>
        /\ infResult = LastAttemptException
        /\ IsRequestException(infResult)
        /\ exhaustedLogged

\* C3 as stated: an answer with a non-2xx status is not retried: once the
\* first POST was answered with an error status the call is over after that
\* single POST.
C3_NoRetryOnHttpError ==
    (outcomes # <<>> /\ outcomes[1] = "non2xx") => (posts = 1 /\ infPc = "done")

\* C3 amended: an answer with a non-2xx status is retried like any
\* RequestException: after such an answer the call goes on to a further
\* attempt while fewer than max_retries POSTs were sent, and fails only once
\* max_retries POSTs were sent.
C3_HttpErrorIsRetried ==
    (outcomes # <<>> /\ outcomes[Len(outcomes)] = "non2xx") =>
        IF posts < max_retries
        THEN infPc \in {"sleep", "attempt"} /\ infResult = "none"
        ELSE infPc = "done" /\ posts = max_retries /\ infResult \notin {"none", "ok"}

C3_Witness ==
    infPc = "done" /\ AllHttpErrors /\ posts = max_retries /\ posts >= 2

\* C4: if the count the service reports equals expected_observations at a
\* sample within the timeout, the wait returns at that sample.
C4_ReturnsWhenCountReached ==
    reachedAtPoll => (waitPc = "done" /\ waitResult = Return(0))

\* C5 as stated: when the condition never became true within the timeout,
\* the polling helpers return to the caller without raising.
C5_TimeoutIsSilent ==
    /\ (waitPc = "done" /\ SamplerExpired(polls, WaitPolls)) => waitResult = Return(0)
    /\ (podPc = "done" /\ SamplerExpired(podPolls, PodPolls)) => podResult = Return(0)

\* C5 amended: when the condition never became true within the timeout, the
\* polling helpers end with TimeoutExpiredError raised by the sampler, and
\* they return normally only after a sample that was true.
C5_TimeoutRaises ==
    /\ (waitPc = "done" /\ SamplerExpired(polls, WaitPolls))
           => waitResult = Raise("TimeoutExpiredError")
    /\ (podPc = "done" /\ SamplerExpired(podPolls, PodPolls))
           => podResult = Raise("TimeoutExpiredError")
    /\ waitResult = Return(0)
           => (current_observations = expected_observations
               /\ ~SamplerExpired(polls, WaitPolls))
    /\ podResult = Return(0)
           => (found_pod_with_env /\ ~SamplerExpired(podPolls, PodPolls))

C5_Witness ==
    /\ op = "wait_for_modelmesh_pods_registered_by_trustyai"
    /\ podPc = "done"
    /\ SamplerExpired(podPolls, PodPolls)
    /\ podResult = Raise("TimeoutExpiredError")

EmptyJson(body) ==
    \/ body.t = "null"
    \/ body.t \in {"number", "string"} /\ body.n = 0
    \/ body.t \in {"list", "object"} /\ Len(body.items) = 0

\* C7: get_trustyai_number_of_observations returns 0, without raising, when
\* the metadata response is falsy or its decoded JSON body is empty.
C7_ZeroOnEmptyMetadata ==
    (/\ op = "get_trustyai_number_of_observations"
     /\ \/ ~model_metadata.ok
        \/ EmptyJson(model_metadata.body)) => obsResult = Return(0)

C7_Witness ==
    /\ op = "get_trustyai_number_of_observations"
    /\ ~model_metadata.ok
    /\ model_metadata.body.t = "invalid"
    /\ obsResult = Return(0)

\* The first model entry has no data.observations.
LacksObservations(m) == ~(m.t = "obj" /\ m.data = "obj" /\ m.hasObs)

\* C8: for a non-empty metadata document whose first model entry lacks
\* data.observations the call raises the parse error, and every exception
\* the call raises is the parse error, never a raw KeyError.
C8_ParseErrorNotKeyError ==
    op = "get_trustyai_number_of_observations" =>
        /\ (/\ model_metadata.ok
            /\ model_metadata.body.t = "object"
            /\ model_metadata.body.items # <<>>
            /\ LacksObservations(Head(model_metadata.body.items)))
               => obsResult = Raise(ParseError)
        /\ obsResult.kind = "raise" => obsResult.exc = ParseError

C8_Witness ==
    /\ op = "get_trustyai_number_of_observations"
    /\ model_metadata.ok
    /\ model_metadata.body.t = "object"
    /\ model_metadata.body.items # <<>>
    /\ Head(model_metadata.body.items) = ModelEntry("obj", "absent", FALSE, 0)
    /\ obsResult = Raise(ParseError)

\* Every field but thresholds is populated and valid for the requested name.
OtherFieldsValid(r, name) ==
    /\ r.json_ok /\ r.status_code = HTTP_OK
    /\ r.timestamp = "v" /\ r.type = "metric" /\ r.value = "v"
    /\ r.specificDefinition = "v" /\ r.id = "v"
    /\ r.hasName /\ r.name = name /\ Lower(name) = name

\* C9: an answer that lacks the thresholds field, every other field being
\* populated and valid, makes verify_trustyai_metric_request raise
\* MetricValidationError with the single message "Thresholds are empty".
C9_MissingThresholdsReported ==
    (/\ op = "verify_trustyai_metric_request"
     /\ OtherFieldsValid(response, metric_name)
     /\ response.thresholds = "absent") =>
        /\ verifyResult.exc = "MetricValidationError"
        /\ Len(verifyResult.msgs) = 1
        /\ verifyResult.msgs[1] \in {"Thresholds are empty", "Thresholds are empty."}

\* The checks an answer to a metric request violates: a required field that
\* is absent or empty, a wrong status, type or name.
ViolatedMetricChecks(r, name) ==
    {c \in {"status", "timestamp", "type", "value", "specificDefinition",
            "name", "id", "thresholds"} :
        CASE c = "status" -> r.status_code # HTTP_OK
          [] c = "timestamp" -> r.timestamp \in {"absent", ""}
          [] c = "type" -> r.type # "metric"
          [] c = "value" -> r.value \in {"absent", ""}
          [] c = "specificDefinition" -> r.specificDefinition \in {"absent", ""}
          [] c = "name" -> ~r.hasName \/ Lower(r.name) # name
          [] c = "id" -> r.id \in {"absent", ""}
          [] OTHER -> r.thresholds \in {"absent", ""}}

\* The checks the answers to a scheduling and a listing request violate.
ViolatedSchedChecks(r, g) ==
    {c \in {"requestId", "status", "timestamp", "listStatus", "listing"} :
        CASE c = "requestId" -> r.requestId \in {"absent", ""}
          [] c = "status" -> r.status_code # HTTP_OK
          [] c = "timestamp" -> r.timestamp \in {"absent", ""}
          [] c = "listStatus" -> g.status_code # HTTP_OK
          [] OTHER -> \/ ~g.hasRequests
                      \/ Len(g.requests) # 1
                      \/ g.requests[1] # r.requestId}

\* The helper raised one MetricValidationError with one message per violated
\* check, and returned exactly when no check is violated.
ReportsExactly(violated) ==
    IF violated = {} THEN verifyResult = VReturn
    ELSE /\ verifyResult.exc = "MetricValidationError"
         /\ Len(verifyResult.msgs) = Cardinality(violated)

\* C10: for every answer the verification helpers evaluate every check and
\* raise a single MetricValidationError holding one message per violated
\* check; no error is raised exactly when no check is violated.
C10_AllViolationsCollected ==
    /\ (op = "verify_trustyai_metric_request" /\ response.json_ok)
           => ReportsExactly(ViolatedMetricChecks(response, metric_name))
    /\ (/\ op = "verify_trustyai_metric_scheduling"
        /\ sched_response.json_ok /\ get_metrics_response.json_ok)
           => ReportsExactly(ViolatedSchedChecks(sched_response, get_metrics_response))

\* The MetricValidationError text holds the 'Wrong name' line.
WrongNameReported ==
    \E i \in 1..Len(verifyResult.msgs) :
        verifyResult.msgs[i] = "Wrong name: " \o Str(response.name)
                                   \o ", expected: " \o Str(metric_name)

\* C11: verify_trustyai_metric_request compares the answer's name with the
\* requested metric name case-insensitively: a 'Wrong name' violation is
\* reported exactly when the two names differ beyond letter case.
C11_NameMatchIgnoresCase ==
    (/\ op = "verify_trustyai_metric_request"
     /\ response.json_ok
     /\ ~MetricFieldAbsent(response)) =>
        (WrongNameReported <=> Lower(response.name) # Lower(metric_name))

\* The scheduling answer had the fields the helper reads before it sends the
\* listing request, and the listing answer decoded to entries with ids.
ListingRequested ==
    /\ op = "verify_trustyai_metric_scheduling"
    /\ sched_response.json_ok
    /\ sched_response.requestId # "absent"
    /\ sched_response.timestamp # "absent"
    /\ get_metrics_response.json_ok
    /\ \A i \in 1..Len(get_metrics_response.requests) :
           get_metrics_response.requests[i] # "absent"

LastMessage == verifyResult.msgs[Len(verifyResult.msgs)]

\* C12: after a scheduling request and the listing request that follows it,
\* verify_trustyai_metric_scheduling passes only if the listing holds exactly
\* one entry whose id is the requestId of the scheduling answer; it reports a
\* violation when the listing is empty, holds more than one entry, or its
\* single entry's id differs.
C12_ExactlyOneListedWithSameId ==
    ListingRequested =>
        LET g == get_metrics_response
            rid == sched_response.requestId
        IN  /\ verifyResult = VReturn
                => (g.hasRequests /\ Len(g.requests) = 1 /\ g.requests[1] = rid)
            /\ (~g.hasRequests \/ Len(g.requests) = 0)
                => /\ verifyResult.exc = "MetricValidationError"
                   /\ LastMessage = "No requests found in metrics response"
            /\ Len(g.requests) > 1
                => /\ verifyResult.exc = "MetricValidationError"
                   /\ LastMessage = "Expected exactly 1 request, got "
                                        \o ToString(Len(g.requests))
            /\ (Len(g.requests) = 1 /\ g.requests[1] # rid)
                => /\ verifyResult.exc = "MetricValidationError"
                   /\ LastMessage = "Request ID mismatch. Expected: " \o rid
                                        \o ", Got: " \o g.requests[1]

C12_Witness ==
    /\ ListingRequested
    /\ sched_response.status_code = HTTP_OK
    /\ sched_response.requestId = "id1"
    /\ get_metrics_response.status_code = HTTP_OK
    /\ get_metrics_response.requests = <<"id2">>
    /\ verifyResult.exc = "MetricValidationError"
    /\ verifyResult.msgs = <<"Request ID mismatch. Expected: id1, Got: id2">>

\* C13: _send_request raises ValueError for every method other than GET and
\* POST and sends no HTTP request then; for GET and POST it sends exactly one
\* request, of that method, whatever the answer (no retry).
C13_OnlyGetAndPost ==
    op = "_send_request" =>
        IF method \in {"GET", "POST"}
        THEN httpSent = <<method>> /\ sendResult # Raise("ValueError")
        ELSE httpSent = <<>> /\ sendResult = Raise("ValueError")

C13_Witness ==
    /\ op = "_send_request"
    /\ method = "PUT"
    /\ httpSent = <<>>
    /\ sendResult = Raise("ValueError")

\* Creating the object met an already-exists conflict.
ConflictOnCreate == op = "fixture" /\ fixPc # "setup" /\ preExisting.exists

\* C14: when creating the singleton monitoring ConfigMap hits an
\* already-exists conflict the fixture does not fail and yields exactly once
\* a reference to the existing object of the same name and namespace.
C14_ConflictIsSuccess ==
    (ConflictOnCreate /\ fixture \in ConfigMapFixtures) =>
        /\ fixPc \in {"yielded", "done"}
        /\ fixResult.kind # "raise"
        /\ yields = 1
        /\ yieldedRef = Ref("reference", ResourceName(fixture),
                            ResourceNamespace(fixture))

C14_Witness ==
    /\ ConflictOnCreate
    /\ fixture = "cluster_monitoring_config"
    /\ fixPc = "done"
    /\ yields = 1
    /\ yieldedRef = Ref("reference", "cluster-monitoring-config",
                        "openshift-monitoring")

\* C15: a resource the fixture created exists during the whole scope and is
\* deleted when the scope exits; an object that existed before the fixture
\* ran (conflict path) is present and unmodified during the scope and after
\* teardown.
C15_ScopedAcquisition ==
    op = "fixture" =>
        /\ (created /\ fixPc = "yielded") => clusterObj = ClusterObj(TRUE, "fixture")
        /\ (created /\ fixPc = "done") => ~clusterObj.exists
        /\ created => ~preExisting.exists
        /\ preExisting.exists => (~created /\ clusterObj = preExisting)

C15_Witness ==
    /\ op = "fixture"
    /\ fixture \in ConfigMapFixtures
    /\ fixPc = "done"
    /\ preExisting = ClusterObj(TRUE, "other")
    /\ clusterObj = ClusterObj(TRUE, "other")
    /\ yields = 1

\* Every check but possibly the last saw the pod in the expected set.
InsideUpTo(n) == \A i \in 1..n : checkLog[i] \in statusSet

\* The check raises AssertionError at the first check that sees the pod
\* outside the set, and verify_lmevaljob_running enters the check only after
\* the pod was seen Running.
ChecksUntilOutside ==
    /\ (lmPc = "done" /\ lmResult = Raise("AssertionError"))
           => /\ checkLog # <<>>
              /\ checkLog[Len(checkLog)] \notin statusSet
              /\ InsideUpTo(Len(checkLog) - 1)
    /\ lmPc = "check" => InsideUpTo(Len(checkLog))
    /\ (op = "verify_lmevaljob_running" /\ (lmPc = "check" \/ checkLog # <<>>))
           => observedRunning

\* C16 as stated: check_pod_status_in_time raises AssertionError at the first
\* check outside the set and returns normally only if the status was inside
\* the set at every check made every `wait` until `duration` elapsed, with at
\* least one check made.
C16_HeldWithAtLeastOneCheck ==
    /\ ChecksUntilOutside
    /\ (lmPc = "done" /\ lmResult = Return(0))
           => /\ InsideUpTo(Len(checkLog))
              /\ Len(checkLog) * wait >= duration
              /\ Len(checkLog) >= 1

\* C16 amended: as stated, except that a check is made only when duration is
\* positive: with duration <= 0 the call returns normally without any check.
C16_HeldForDuration ==
    /\ ChecksUntilOutside
    /\ (lmPc = "done" /\ lmResult = Return(0))
           => /\ InsideUpTo(Len(checkLog))
              /\ Len(checkLog) * wait >= duration
              /\ (Len(checkLog) - 1) * wait < duration \/ checkLog = <<>>
              /\ (Len(checkLog) >= 1 <=> duration > 0)

C16_Witness ==
    /\ op = "verify_lmevaljob_running"
    /\ lmPc = "done"
    /\ lmResult = Return(0)
    /\ observedRunning
    /\ Len(checkLog) = LmDuration
    /\ checkLog[Len(checkLog)] = "Succeeded"

\* C17: the readiness predicate returns True only if a ModelMesh pod carrying
\* MM_PAYLOAD_PROCESSORS was found Running in that sample; a pod deleted
\* between the env-var check and the status check is not counted as found.
C17_TrueOnlyWithRunningEnvPod ==
    (op = "wait_for_modelmesh_pods_registered_by_trustyai"
     /\ podPc = "done" /\ podResult = Return(0))
        => /\ running_with_env # {}
           /\ \A i \in 1..Len(modelmesh_pods) :
                  LET pod == pods[modelmesh_pods[i]]
                  IN  (pod.exists /\ pod.hasEnv) => pod.status = "Running"

\* C18: for a non-empty metadata document whose first model entry has
\* data.observations = n, get_trustyai_number_of_observations returns n for
\* every n >= 0, n = 0 included, whatever the later entries are.
C18_FirstEntryCountReturned ==
    (op = "get_trustyai_number_of_observations"
     /\ obsResult # NoResult
     /\ model_metadata.ok
     /\ model_metadata.body.t = "object"
     /\ model_metadata.body.items # <<>>)
        => \A n \in 0..MaxObs :
               Head(model_metadata.body.items) = ObsModel(n)
                   => obsResult = Return(n)

====
